---- MODULE Spec2Model ----
(***************************************************************************)
(* Vector2 / Vector3 of github.com/Dobefu/vectors.                         *)
(*                                                                         *)
(* The components are float64 in the source.  They are modelled here by a  *)
(* binary floating-point format of the same shape as IEEE-754 binary64     *)
(* (sign, P significant bits, round-to-nearest-even, gradual underflow,    *)
(* overflow to infinity, signed zeros, NaN) with a narrow precision and    *)
(* exponent range, so that a model checker can enumerate it.  A finite     *)
(* value is sign * n * 2^-F, with n a natural number of at most P          *)
(* significant bits.                                                       *)
(***************************************************************************)
EXTENDS Integers, Sequences, FiniteSets, TLC

\* ------------------------------------------------------------------------
\* The floating-point format (float64 has P = 53)
\* ------------------------------------------------------------------------

\* Significant bits of a value.
P == 8

\* The unit in which finite magnitudes are counted is 2^-F: the smallest
\* positive (subnormal) value.
F == 11

\* The largest finite magnitude is (2^P - 1) * 2^Q units.
Q == 20

MaxFinite == (2^P - 1) * 2^Q

NaN == [k |-> "nan", neg |-> FALSE, n |-> 0]

Inf(neg) == [k |-> "inf", neg |-> neg, n |-> 0]

Fin(neg, n) == [k |-> "fin", neg |-> neg, n |-> n]

\* The value m * 2^e, for an integer m of at most P bits and F + e >= 0.
Dy(m, e) == Fin(m < 0, (IF m < 0 THEN -m ELSE m) * 2^(F + e))

Num(i) == Dy(i, 0)

PosZero == Fin(FALSE, 0)

NegZero == Fin(TRUE, 0)

IsNaN(x) == x.k = "nan"

IsInf(x) == x.k = "inf"

IsFinite(x) == x.k = "fin"

IsZeroF(x) == x.k = "fin" /\ x.n = 0

RECURSIVE BitLen(_)
BitLen(n) == IF n = 0 THEN 0 ELSE 1 + BitLen(n \div 2)

RECURSIVE ISqrt(_)
ISqrt(n) ==
    IF n < 2 THEN n
    ELSE LET s == 2 * ISqrt(n \div 4)
         IN  IF (s + 1) * (s + 1) <= n THEN s + 1 ELSE s

\* The exact non-negative value M * 2^E units (a little more when st, the
\* sticky flag, is set) rounded to nearest, ties to even, to a magnitude of at
\* most P significant bits that is a whole number of units.
RoundMag(M, E, st) ==
    IF M = 0 THEN [ovf |-> FALSE, n |-> 0]
    ELSE LET L  == BitLen(M)
             q  == IF L + E - P > 0 THEN L + E - P ELSE 0
             sh == q - E
         IN  IF q > Q THEN [ovf |-> TRUE, n |-> 0]
             ELSE IF sh > L THEN [ovf |-> FALSE, n |-> 0]
             ELSE LET r == IF sh <= 0 THEN M * 2^(-sh)
                           ELSE LET base == M \div 2^sh
                                    rem  == M % 2^sh
                                    half == 2^(sh - 1)
                                    up   == \/ rem > half
                                            \/ rem = half /\ (st \/ base % 2 = 1)
                                IN  base + (IF up THEN 1 ELSE 0)
                      n == r * 2^q
                  IN  IF n > MaxFinite THEN [ovf |-> TRUE, n |-> 0]
                      ELSE [ovf |-> FALSE, n |-> n]

Pack(neg, r) == IF r.ovf THEN Inf(neg) ELSE Fin(neg, r.n)

SVal(x) == IF x.neg THEN -x.n ELSE x.n

Abs(i) == IF i < 0 THEN -i ELSE i

\* A finite non-zero magnitude n as mant * 2^expo with mant of exactly P bits.
NormMant(n) ==
    LET L == BitLen(n)
    IN  IF L <= P THEN n * 2^(P - L) ELSE n \div 2^(L - P)

NormExp(n) == BitLen(n) - P

\* -x
FNeg(x) == IF IsNaN(x) THEN NaN ELSE [x EXCEPT !.neg = ~x.neg]

\* x + y
FAdd(x, y) ==
    IF IsNaN(x) \/ IsNaN(y) THEN NaN
    ELSE IF IsInf(x) /\ IsInf(y) THEN (IF x.neg = y.neg THEN x ELSE NaN)
    ELSE IF IsInf(x) THEN x
    ELSE IF IsInf(y) THEN y
    ELSE LET s == SVal(x) + SVal(y)
         IN  IF s = 0 THEN Fin(x.neg /\ y.neg, 0)
             ELSE Pack(s < 0, RoundMag(Abs(s), 0, FALSE))

\* x - y
FSub(x, y) == FAdd(x, FNeg(y))

\* x * y
FMul(x, y) ==
    IF IsNaN(x) \/ IsNaN(y) THEN NaN
    ELSE LET neg == x.neg # y.neg
         IN  IF IsInf(x) \/ IsInf(y)
             THEN (IF IsZeroF(x) \/ IsZeroF(y) THEN NaN ELSE Inf(neg))
             ELSE IF x.n = 0 \/ y.n = 0 THEN Fin(neg, 0)
             ELSE Pack(neg, RoundMag(NormMant(x.n) * NormMant(y.n),
                                     NormExp(x.n) + NormExp(y.n) - F, FALSE))

\* x / y
FDiv(x, y) ==
    IF IsNaN(x) \/ IsNaN(y) THEN NaN
    ELSE LET neg == x.neg # y.neg
         IN  IF IsInf(x) THEN (IF IsInf(y) THEN NaN ELSE Inf(neg))
             ELSE IF IsInf(y) THEN Fin(neg, 0)
             ELSE IF y.n = 0 THEN (IF x.n = 0 THEN NaN ELSE Inf(neg))
             ELSE IF x.n = 0 THEN Fin(neg, 0)
             ELSE LET num == NormMant(x.n) * 2^(P + 2)
                      den == NormMant(y.n)
                  IN  Pack(neg, RoundMag(num \div den,
                                         NormExp(x.n) - NormExp(y.n) - (P + 2) + F,
                                         num % den # 0))

\* math.Sqrt(x)
FSqrt(x) ==
    IF IsNaN(x) THEN NaN
    ELSE IF IsZeroF(x) THEN x
    ELSE IF x.neg THEN NaN
    ELSE IF IsInf(x) THEN x
    ELSE LET t  == NormExp(x.n) + F
             g  == IF (t - P) % 2 = 0 THEN P + 4 ELSE P + 5
             m  == NormMant(x.n) * 2^g
             r  == ISqrt(m)
         IN  Pack(FALSE, RoundMag(r, (t - g) \div 2, r * r # m))

\* The order of the non-NaN values: -Inf < finite < +Inf, and -0 = +0.
Key(x) == IF IsInf(x) THEN (IF x.neg THEN -(MaxFinite + 1) ELSE MaxFinite + 1)
          ELSE SVal(x)

\* x == y
FEq(x, y) == ~IsNaN(x) /\ ~IsNaN(y) /\ Key(x) = Key(y)

\* x != y
FNe(x, y) == ~FEq(x, y)

\* x < y
FLt(x, y) == ~IsNaN(x) /\ ~IsNaN(y) /\ Key(x) < Key(y)

\* x <= y
FLe(x, y) == ~IsNaN(x) /\ ~IsNaN(y) /\ Key(x) <= Key(y)

\* math.Copysign(x, y), for a non-NaN x.
Copysign(x, y) == [x EXCEPT !.neg = y.neg]

\* A positive real constant c, given as floor(c * 2^24), as a value of the
\* format: the constant correctly rounded (c * 2^24 is no integer), times 2^e.
Const24(c, e) == Pack(FALSE, RoundMag(c, F - 24 + e, TRUE))

\* math.Pi, and the constants Pi/2, Pi/4 and 3*Pi/4 of math.Atan2.
Pi == Const24(52707178, 0)

HalfPi == Const24(52707178, -1)

QuarterPi == Const24(52707178, -2)

ThreeQuarterPi == Const24(39530383, 0)

\* The arctangent is computed in fixed point, in units of 1/AtanScale.
AtanScale == 2^15

\* atan(k/8) * AtanScale, k = 0..8.
AtanTable == <<0, 4075, 8027, 11756, 15193, 18304, 21086, 23555, 25736>>

HalfPiFix == 51472

\* atan(T/AtanScale) * AtanScale for 0 <= T <= AtanScale: with c = k/8 the
\* eighth nearest to t, atan(t) = atan(c) + atan(u), u = (t - c)/(1 + t*c),
\* and atan(u) = u - u^3/3 for |u| <= 1/16.
AtanFix(T) ==
    LET k  == (8 * T + AtanScale \div 2) \div AtanScale
        u  == ((8 * T - k * AtanScale) * AtanScale) \div (8 * AtanScale + k * T)
        u3 == (((u * u) \div AtanScale) * u) \div (3 * AtanScale)
    IN  AtanTable[k + 1] + u - u3

\* math.Atan(x): the arctangent rounded to the format.
Atan(x) ==
    IF IsNaN(x) THEN NaN
    ELSE IF IsZeroF(x) THEN x
    ELSE IF IsInf(x) THEN Copysign(HalfPi, x)
    ELSE IF x.n < 2^(F - 4)
         \* t < 1/16: atan(t) = t - t^3/3, exactly rounded
         THEN Pack(x.neg, RoundMag(x.n * 2^20 - (x.n * x.n * x.n) \div (3 * 2^(2 * F - 20)),
                                   -20, TRUE))
    ELSE IF x.n <= 2^F
         THEN Pack(x.neg, RoundMag(AtanFix((x.n * AtanScale) \div 2^F), F - 15, FALSE))
    ELSE Pack(x.neg, RoundMag(HalfPiFix - AtanFix((2^F * AtanScale) \div x.n),
                              F - 15, FALSE))

\* math.Atan2(y, x)
Atan2(y, x) ==
    IF IsNaN(x) \/ IsNaN(y) THEN NaN
    ELSE IF IsZeroF(y)
         THEN (IF FLe(PosZero, x) /\ ~x.neg THEN Copysign(PosZero, y)
               ELSE Copysign(Pi, y))
    ELSE IF IsZeroF(x) THEN Copysign(HalfPi, y)
    ELSE IF IsInf(x)
         THEN (IF ~x.neg
               THEN (IF IsInf(y) THEN Copysign(QuarterPi, y) ELSE Copysign(PosZero, y))
               ELSE (IF IsInf(y) THEN Copysign(ThreeQuarterPi, y) ELSE Copysign(Pi, y)))
    ELSE IF IsInf(y) THEN Copysign(HalfPi, y)
    ELSE LET q == Atan(FDiv(y, x))
         IN  IF FLt(x, PosZero)
             THEN (IF FLe(q, PosZero) THEN FAdd(q, Pi) ELSE FSub(q, Pi))
             ELSE q

\* math.Mod(x, y): the remainder of x / y, with the sign of x; it is exact.
FMod(x, y) ==
    IF IsZeroF(y) \/ IsInf(x) \/ IsNaN(x) \/ IsNaN(y) THEN NaN
    ELSE IF IsInf(y) THEN x
    ELSE Fin(x.neg, x.n % y.n)

\* ------------------------------------------------------------------------
\* Vector2
\* ------------------------------------------------------------------------

Vec2(x, y) == [X |-> x, Y |-> y]

Vec3(x, y, z) == [X |-> x, Y |-> y, Z |-> z]

Add2(v, vec) == Vec2(FAdd(v.X, vec.X), FAdd(v.Y, vec.Y))

\* Sub that adds.
Sub2Adds(v, vec) == Vec2(FAdd(v.X, vec.X), FAdd(v.Y, vec.Y))

Sub2(v, vec) == Vec2(FSub(v.X, vec.X), FSub(v.Y, vec.Y))

Mul2(v, vec) == Vec2(FMul(v.X, vec.X), FMul(v.Y, vec.Y))

\* Div that leaves a component alone when its divisor is 0.
Div2Guarded(v, vec) ==
    Vec2(IF IsZeroF(vec.X) THEN v.X ELSE FDiv(v.X, vec.X),
         IF IsZeroF(vec.Y) THEN v.Y ELSE FDiv(v.Y, vec.Y))

Div2(v, vec) == Vec2(FDiv(v.X, vec.X), FDiv(v.Y, vec.Y))

Scale2(v, scale) == Vec2(FMul(v.X, scale), FMul(v.Y, scale))

Bounce2(v) == Vec2(FNeg(v.X), FNeg(v.Y))

MagnitudeSquared2(v) == FAdd(FMul(v.X, v.X), FMul(v.Y, v.Y))

Magnitude2(v) == FSqrt(FAdd(FMul(v.X, v.X), FMul(v.Y, v.Y)))

\* Normalize that divides by the magnitude whatever it is.
Normalize2NoGuard(v) ==
    LET magnitudeSquared == FAdd(FMul(v.X, v.X), FMul(v.Y, v.Y))
        magnitude == FSqrt(magnitudeSquared)
    IN  Vec2(FDiv(v.X, magnitude), FDiv(v.Y, magnitude))

Normalize2(v) ==
    LET magnitudeSquared == FAdd(FMul(v.X, v.X), FMul(v.Y, v.Y))
    IN  IF FNe(magnitudeSquared, PosZero)
        THEN LET magnitude == FSqrt(magnitudeSquared)
             IN  Vec2(FDiv(v.X, magnitude), FDiv(v.Y, magnitude))
        ELSE v

AngleRadians2(v) == Atan2(v.Y, v.X)

AngleDegrees2(v) ==
    LET angle == FDiv(FMul(Atan2(v.Y, v.X), Num(180)), Pi)
    IN  IF FLt(angle, PosZero) THEN FAdd(angle, Num(360)) ELSE angle

IsZero2(v) == FEq(v.X, PosZero) /\ FEq(v.Y, PosZero)

Distance2(v, vec) ==
    LET dx == FSub(v.X, vec.X)
        dy == FSub(v.Y, vec.Y)
    IN  FSqrt(FAdd(FMul(dx, dx), FMul(dy, dy)))

DistanceSquared2(v, vec) ==
    LET dx == FSub(v.X, vec.X)
        dy == FSub(v.Y, vec.Y)
    IN  FAdd(FMul(dx, dx), FMul(dy, dy))

Dot2(v, vec) == FAdd(FMul(v.X, vec.X), FMul(v.Y, vec.Y))

\* Lerp that keeps t between 0 and 1.
Lerp2Clamped(v, vec, t) ==
    LET c == IF FLt(t, PosZero) THEN PosZero ELSE IF FLt(Num(1), t) THEN Num(1) ELSE t
    IN  Vec2(FAdd(v.X, FMul(FSub(vec.X, v.X), c)),
             FAdd(v.Y, FMul(FSub(vec.Y, v.Y), c)))

Lerp2(v, vec, t) ==
    Vec2(FAdd(v.X, FMul(FSub(vec.X, v.X), t)),
         FAdd(v.Y, FMul(FSub(vec.Y, v.Y), t)))

\* ClampMagnitude that compares the magnitude with maxValue, not the squares.
ClampMagnitude2ByMagnitude(v, maxValue) ==
    LET magnitude == Magnitude2(v)
    IN  IF FEq(magnitude, PosZero) \/ FLe(magnitude, maxValue)
        THEN v
        ELSE LET scale == FDiv(maxValue, magnitude)
             IN  Vec2(FMul(v.X, scale), FMul(v.Y, scale))

ClampMagnitude2(v, maxValue) ==
    LET maxSquared == FMul(maxValue, maxValue)
        magnitudeSquared == MagnitudeSquared2(v)
    IN  IF FEq(magnitudeSquared, PosZero) \/ FLe(magnitudeSquared, maxSquared)
        THEN v
        ELSE LET scale == FDiv(maxValue, FSqrt(magnitudeSquared))
             IN  Vec2(FMul(v.X, scale), FMul(v.Y, scale))

Clear2(v) == Vec2(PosZero, PosZero)

\* ToVector3 that copies Y into Z.
ToVector3CopiesY(v) == Vec3(v.X, v.Y, v.Y)

ToVector3(v) == Vec3(v.X, v.Y, PosZero)

\* ------------------------------------------------------------------------
\* Vector3
\* ------------------------------------------------------------------------

Add3(v, vec) == Vec3(FAdd(v.X, vec.X), FAdd(v.Y, vec.Y), FAdd(v.Z, vec.Z))

Sub3(v, vec) == Vec3(FSub(v.X, vec.X), FSub(v.Y, vec.Y), FSub(v.Z, vec.Z))

\* Mul that multiplies Y by the X of the argument.
Mul3CopiedAxis(v, vec) == Vec3(FMul(v.X, vec.X), FMul(v.Y, vec.X), FMul(v.Z, vec.Z))

Mul3(v, vec) == Vec3(FMul(v.X, vec.X), FMul(v.Y, vec.Y), FMul(v.Z, vec.Z))

Div3(v, vec) == Vec3(FDiv(v.X, vec.X), FDiv(v.Y, vec.Y), FDiv(v.Z, vec.Z))

Bounce3(v) == Vec3(FNeg(v.X), FNeg(v.Y), FNeg(v.Z))

SumSquares3(x, y, z) == FAdd(FAdd(FMul(x, x), FMul(y, y)), FMul(z, z))

Magnitude3(v) == FSqrt(SumSquares3(v.X, v.Y, v.Z))

MagnitudeSquared3(v) == SumSquares3(v.X, v.Y, v.Z)

\* Normalize that divides by the squared magnitude: the square root is left out.
Normalize3NoSqrt(v) ==
    LET magnitude == SumSquares3(v.X, v.Y, v.Z)
    IN  IF FNe(magnitude, PosZero)
        THEN Vec3(FDiv(v.X, magnitude), FDiv(v.Y, magnitude), FDiv(v.Z, magnitude))
        ELSE v

Normalize3(v) ==
    LET magnitude == FSqrt(SumSquares3(v.X, v.Y, v.Z))
    IN  IF FNe(magnitude, PosZero)
        THEN Vec3(FDiv(v.X, magnitude), FDiv(v.Y, magnitude), FDiv(v.Z, magnitude))
        ELSE v

AngleRadians3(v) == Atan2(v.Y, v.X)

AngleDegrees3(v) ==
    LET angle == FDiv(FMul(Atan2(v.Y, v.X), Num(180)), Pi)
    IN  FMod(FAdd(angle, Num(360)), Num(360))

IsZero3(v) == FEq(v.X, PosZero) /\ FEq(v.Y, PosZero) /\ FEq(v.Z, PosZero)

\* Distance that leaves the Z axis out.
Distance3Flat(v, vec) ==
    LET dx == FSub(v.X, vec.X)
        dy == FSub(v.Y, vec.Y)
    IN  FSqrt(FAdd(FMul(dx, dx), FMul(dy, dy)))

Distance3(v, vec) ==
    LET dx == FSub(v.X, vec.X)
        dy == FSub(v.Y, vec.Y)
        dz == FSub(v.Z, vec.Z)
    IN  FSqrt(SumSquares3(dx, dy, dz))

DistanceSquared3(v, vec) ==
    LET dx == FSub(v.X, vec.X)
        dy == FSub(v.Y, vec.Y)
        dz == FSub(v.Z, vec.Z)
    IN  SumSquares3(dx, dy, dz)

\* ClampMagnitude that scales by maxValue, not by maxValue / magnitude.
ClampMagnitude3NoDivide(v, maxValue) ==
    LET magnitude == Magnitude3(v)
    IN  IF FEq(magnitude, PosZero) \/ FLe(magnitude, maxValue)
        THEN v
        ELSE Vec3(FMul(v.X, maxValue), FMul(v.Y, maxValue), FMul(v.Z, maxValue))

ClampMagnitude3(v, maxValue) ==
    LET magnitude == Magnitude3(v)
    IN  IF FEq(magnitude, PosZero) \/ FLe(magnitude, maxValue)
        THEN v
        ELSE LET scale == FDiv(maxValue, magnitude)
             IN  Vec3(FMul(v.X, scale), FMul(v.Y, scale), FMul(v.Z, scale))

Clear3(v) == Vec3(PosZero, PosZero, PosZero)

ToVector2(v) == Vec2(v.X, v.Y)

\* ------------------------------------------------------------------------
\* The callers: a program that holds a receiver and an argument vector of
\* one of the two types and calls the methods on them one after the other.
\* A method with a value receiver works on a copy and leaves the program's
\* state as it is, so that a call made after it reaches what the same call
\* made before it reaches: a run is a sequence of mutating calls, followed by
\* at most one call of a method with a value receiver.
\* ------------------------------------------------------------------------

\* Mutating calls made on a receiver in one run.
MaxCalls == 1

\* Mutating calls made in one run of the caller that adds and subtracts.
MaxRoundTrip == 2

Tiny == Fin(FALSE, 1)

Huge == Fin(FALSE, MaxFinite)

Zero2 == Vec2(PosZero, PosZero)

Zero3 == Vec3(PosZero, PosZero, PosZero)

\* Components of the Vector2 receivers, every pair of which is a receiver.
Comp2 == {Num(0), Num(1), Num(3), Num(4), FNeg(Tiny)}

\* The other Vector2 receivers: signed zeros, negative, huge, infinite and
\* NaN components.
Special2 ==
    {Vec2(NegZero, Num(0)), Vec2(Num(0), Num(-1)), Vec2(Num(-1), Num(-1)),
     Vec2(Huge, Huge), Vec2(Huge, Num(1)), Vec2(Inf(FALSE), Num(1)),
     Vec2(Inf(FALSE), Inf(FALSE)), Vec2(NaN, Num(0)), Vec2(Num(1), NaN)}

Recv2 == {Vec2(x, y) : x \in Comp2, y \in Comp2} \cup Special2

\* Components X and Y, and component Z, of the Vector3 receivers.
Comp3 == {Num(0), Num(3), Num(4), FNeg(Tiny)}

CompZ == {Num(0), Num(12)}

Special3 ==
    {Vec3(NegZero, Num(0), Num(0)), Vec3(Num(0), Num(-1), Num(0)),
     Vec3(Num(-1), Num(-1), Num(0)), Vec3(Huge, Huge, Num(0)),
     Vec3(Huge, Num(0), Num(12)), Vec3(Inf(FALSE), Num(1), Num(0)),
     Vec3(NaN, Num(0), Num(0)), Vec3(Num(3), Num(4), NaN),
     Vec3(Num(3), Num(4), NegZero)}

Recv3 == {Vec3(x, y, z) : x \in Comp3, y \in Comp3, z \in CompZ} \cup Special3

\* Argument vectors.
Args2 == {Vec2(Num(0), Num(1)), Vec2(Num(10), Num(10)), Vec2(Num(1), Tiny)}

Args3 == {Vec3(Num(0), Num(1), Num(0)), Vec3(Num(10), Tiny, Num(1))}

ScaleArgs == {Num(2), Dy(-1, -1)}

LerpArgs == {Num(0), Dy(1, -1), Num(1), Num(2)}

ClampArgs == {Num(0), Num(3), Num(-5), Dy(1, -3), Huge, Inf(FALSE), NaN}

NoRet == [f |-> PosZero, b |-> FALSE, v2 |-> Zero2, v3 |-> Zero3]

RetF(f) == [NoRet EXCEPT !.f = f]

RetB(b) == [NoRet EXCEPT !.b = b]

\* No goroutines, and no frames of theirs.
NoThreads == <<>>

NoFrames == <<>>

NoCall == [name |-> "none", s |-> PosZero]

VARIABLES
    ty,     \* the type under test: "Vector2" or "Vector3"
    left,   \* mutating calls the caller may still make
    v2,     \* the Vector2 receiver
    w2,     \* the caller's Vector2 argument
    v3,     \* the Vector3 receiver
    w3,     \* the caller's Vector3 argument
    lastm,  \* the last mutating call: its name and its scalar argument
    prevm,  \* the name of the mutating call before it
    pre2,   \* v2 before the last mutating call
    old2,   \* v2 before the mutating call before it
    pre3,   \* v3 before the last mutating call
    old3,   \* v3 before the mutating call before it
    q,      \* the name of the last call, when it was one with a value receiver
    ret,    \* what that call returned
    thr,    \* the goroutines: each one's own copy of the vector and its call
    frame,  \* the goroutines' stack frames: the locals of their calls
    mixed   \* a goroutine has taken a step in the middle of another one's call

vars ==
    <<ty, left, v2, w2, v3, w3, lastm, prevm, pre2, old2, pre3, old3, q, ret,
      thr, frame, mixed>>

Inputs ==
    /\ ty \in {"Vector2", "Vector3"}
    /\ IF ty = "Vector2"
       THEN /\ v2 \in Recv2
            /\ w2 \in Args2
            /\ v3 = Zero3
            /\ w3 = Zero3
       ELSE /\ v3 \in Recv3
            /\ w3 \in Args3
            /\ v2 = Zero2
            /\ w2 = Zero2
    /\ pre2 = v2
    /\ old2 = v2
    /\ pre3 = v3
    /\ old3 = v3
    /\ lastm = NoCall
    /\ prevm = "none"
    /\ q = "none"
    /\ ret = NoRet
    /\ thr = NoThreads
    /\ frame = NoFrames
    /\ mixed = FALSE

Init == Inputs /\ left = MaxCalls

\* A call of a Vector2 method with a pointer receiver: the receiver becomes
\* nv; the argument is passed by value.
Mutate2(name, s, nv) ==
    /\ ty = "Vector2"
    /\ q = "none"
    /\ left > 0
    /\ left' = left - 1
    /\ v2' = nv
    /\ pre2' = v2
    /\ old2' = pre2
    /\ lastm' = [name |-> name, s |-> s]
    /\ prevm' = lastm.name
    /\ q' = "none"
    /\ ret' = NoRet
    /\ UNCHANGED <<ty, w2, v3, w3, pre3, old3, thr, frame, mixed>>

\* A call of a Vector2 method with a value receiver: it returns r.
Query2(name, r) ==
    /\ ty = "Vector2"
    /\ q = "none"
    /\ q' = name
    /\ ret' = r
    /\ UNCHANGED <<ty, left, v2, w2, v3, w3, lastm, prevm, pre2, old2, pre3, old3, thr, frame, mixed>>

Mutate3(name, s, nv) ==
    /\ ty = "Vector3"
    /\ q = "none"
    /\ left > 0
    /\ left' = left - 1
    /\ v3' = nv
    /\ pre3' = v3
    /\ old3' = pre3
    /\ lastm' = [name |-> name, s |-> s]
    /\ prevm' = lastm.name
    /\ q' = "none"
    /\ ret' = NoRet
    /\ UNCHANGED <<ty, v2, w2, w3, pre2, old2, thr, frame, mixed>>

Query3(name, r) ==
    /\ ty = "Vector3"
    /\ q = "none"
    /\ q' = name
    /\ ret' = r
    /\ UNCHANGED <<ty, left, v2, w2, v3, w3, lastm, prevm, pre2, old2, pre3, old3, thr, frame, mixed>>

CallAdd2 == Mutate2("Add", PosZero, Add2(v2, w2))

CallSub2 == Mutate2("Sub", PosZero, Sub2(v2, w2))

CallMul2 == Mutate2("Mul", PosZero, Mul2(v2, w2))

CallDiv2 == Mutate2("Div", PosZero, Div2(v2, w2))

CallScale2 == \E s \in ScaleArgs : Mutate2("Scale", s, Scale2(v2, s))

CallBounce2 == Mutate2("Bounce", PosZero, Bounce2(v2))

CallNormalize2 == Mutate2("Normalize", PosZero, Normalize2(v2))

CallLerp2 == \E t \in LerpArgs : Mutate2("Lerp", t, Lerp2(v2, w2, t))

CallClampMagnitude2 ==
    \E maxValue \in ClampArgs :
        Mutate2("ClampMagnitude", maxValue, ClampMagnitude2(v2, maxValue))

CallClear2 == Mutate2("Clear", PosZero, Clear2(v2))

CallAngleRadians2 == Query2("AngleRadians", RetF(AngleRadians2(v2)))

CallAngleDegrees2 == Query2("AngleDegrees", RetF(AngleDegrees2(v2)))

CallIsZero2 == Query2("IsZero", RetB(IsZero2(v2)))

CallMagnitude2 == Query2("Magnitude", RetF(Magnitude2(v2)))

CallMagnitudeSquared2 == Query2("MagnitudeSquared", RetF(MagnitudeSquared2(v2)))

\* Distance that subtracts the argument from the receiver in place and
\* takes the magnitude of what is left.
CallDistance2InPlace ==
    /\ ty = "Vector2"
    /\ q = "none"
    /\ q' = "Distance"
    /\ ret' = RetF(Magnitude2(Sub2(v2, w2)))
    /\ v2' = Sub2(v2, w2)
    /\ UNCHANGED <<ty, left, w2, v3, w3, lastm, prevm, pre2, old2, pre3, old3, thr,
                   frame, mixed>>

CallDistance2 == Query2("Distance", RetF(Distance2(v2, w2)))

CallDistanceSquared2 == Query2("DistanceSquared", RetF(DistanceSquared2(v2, w2)))

CallDot2 == Query2("Dot", RetF(Dot2(v2, w2)))

CallToVector3 == Query2("ToVector3", [NoRet EXCEPT !.v3 = ToVector3(v2)])

CallAdd3 == Mutate3("Add", PosZero, Add3(v3, w3))

CallSub3 == Mutate3("Sub", PosZero, Sub3(v3, w3))

CallMul3 == Mutate3("Mul", PosZero, Mul3(v3, w3))

CallDiv3 == Mutate3("Div", PosZero, Div3(v3, w3))

CallBounce3 == Mutate3("Bounce", PosZero, Bounce3(v3))

CallNormalize3 == Mutate3("Normalize", PosZero, Normalize3(v3))

CallClampMagnitude3 ==
    \E maxValue \in ClampArgs :
        Mutate3("ClampMagnitude", maxValue, ClampMagnitude3(v3, maxValue))

CallClear3 == Mutate3("Clear", PosZero, Clear3(v3))

CallAngleRadians3 == Query3("AngleRadians", RetF(AngleRadians3(v3)))

CallAngleDegrees3 == Query3("AngleDegrees", RetF(AngleDegrees3(v3)))

CallIsZero3 == Query3("IsZero", RetB(IsZero3(v3)))

CallMagnitude3 == Query3("Magnitude", RetF(Magnitude3(v3)))

CallMagnitudeSquared3 == Query3("MagnitudeSquared", RetF(MagnitudeSquared3(v3)))

CallDistance3 == Query3("Distance", RetF(Distance3(v3, w3)))

CallDistanceSquared3 == Query3("DistanceSquared", RetF(DistanceSquared3(v3, w3)))

CallToVector2 == Query3("ToVector2", [NoRet EXCEPT !.v2 = ToVector2(v3)])

Next ==
    \/ CallAdd2 \/ CallSub2 \/ CallMul2 \/ CallDiv2 \/ CallScale2 \/ CallBounce2
    \/ CallNormalize2 \/ CallLerp2 \/ CallClampMagnitude2 \/ CallClear2
    \/ CallAngleRadians2 \/ CallAngleDegrees2 \/ CallIsZero2 \/ CallMagnitude2
    \/ CallMagnitudeSquared2 \/ CallDistance2 \/ CallDistanceSquared2 \/ CallDot2
    \/ CallToVector3
    \/ CallAdd3 \/ CallSub3 \/ CallMul3 \/ CallDiv3 \/ CallBounce3
    \/ CallNormalize3 \/ CallClampMagnitude3 \/ CallClear3
    \/ CallAngleRadians3 \/ CallAngleDegrees3 \/ CallIsZero3 \/ CallMagnitude3
    \/ CallMagnitudeSquared3 \/ CallDistance3 \/ CallDistanceSquared3
    \/ CallToVector2

Spec == Init /\ [][Next]_vars

\* The caller that adds its argument to the receiver and subtracts it again.
InitRoundTrip == Inputs /\ left = MaxRoundTrip

NextRoundTrip == CallAdd2 \/ CallSub2 \/ CallAdd3 \/ CallSub3

SpecRoundTrip == InitRoundTrip /\ [][NextRoundTrip]_vars

\* ------------------------------------------------------------------------
\* The mirrored caller: it holds a Vector2 and the Vector3 made of it by
\* ToVector3, and calls each method that both types have on the two of
\* them, with the same scalar and with the argument vector converted by
\* ToVector3.
\* ------------------------------------------------------------------------

\* The methods of the two interfaces.
IVector2 ==
    {"Add", "Sub", "Mul", "Div", "Scale", "Bounce", "Normalize", "AngleRadians",
     "AngleDegrees", "IsZero", "Magnitude", "MagnitudeSquared", "Distance",
     "DistanceSquared", "Dot", "Lerp", "ClampMagnitude", "Clear", "ToVector3"}

IVector3 ==
    {"Add", "Sub", "Mul", "Div", "Bounce", "Normalize", "AngleRadians",
     "AngleDegrees", "IsZero", "Magnitude", "MagnitudeSquared", "Distance",
     "DistanceSquared", "ClampMagnitude", "Clear", "ToVector2"}

InitMirror ==
    /\ ty = "Mirror"
    /\ v2 \in Recv2
    /\ w2 \in Args2
    /\ v3 = ToVector3(v2)
    /\ w3 = ToVector3(w2)
    /\ pre2 = v2
    /\ old2 = v2
    /\ pre3 = v3
    /\ old3 = v3
    /\ lastm = NoCall
    /\ prevm = "none"
    /\ q = "none"
    /\ ret = NoRet
    /\ thr = NoThreads
    /\ frame = NoFrames
    /\ mixed = FALSE
    /\ left = MaxCalls

\* The same call of a method with a pointer receiver on the two vectors.
MirrorMutate(name, s, nv2, nv3) ==
    /\ ty = "Mirror"
    /\ name \in IVector2 \cap IVector3
    /\ q = "none"
    /\ left > 0
    /\ left' = left - 1
    /\ v2' = nv2
    /\ v3' = nv3
    /\ pre2' = v2
    /\ old2' = pre2
    /\ pre3' = v3
    /\ old3' = pre3
    /\ lastm' = [name |-> name, s |-> s]
    /\ prevm' = lastm.name
    /\ q' = "none"
    /\ ret' = NoRet
    /\ UNCHANGED <<ty, w2, w3, thr, frame, mixed>>

\* The same call of a method with a value receiver on the two vectors: it
\* returns on2 on the Vector2 and on3 on the Vector3.
MirrorQuery(name, on2, on3) ==
    /\ ty = "Mirror"
    /\ name \in IVector2 \cap IVector3
    /\ q = "none"
    /\ q' = name
    /\ ret' = [on2 |-> on2, on3 |-> on3]
    /\ UNCHANGED <<ty, left, v2, w2, v3, w3, lastm, prevm, pre2, old2, pre3, old3, thr, frame, mixed>>

MirrorAdd == MirrorMutate("Add", PosZero, Add2(v2, w2), Add3(v3, w3))

MirrorSub == MirrorMutate("Sub", PosZero, Sub2(v2, w2), Sub3(v3, w3))

MirrorMul == MirrorMutate("Mul", PosZero, Mul2(v2, w2), Mul3(v3, w3))

MirrorDiv == MirrorMutate("Div", PosZero, Div2(v2, w2), Div3(v3, w3))

MirrorBounce == MirrorMutate("Bounce", PosZero, Bounce2(v2), Bounce3(v3))

MirrorNormalize == MirrorMutate("Normalize", PosZero, Normalize2(v2), Normalize3(v3))

MirrorClampMagnitude ==
    \E maxValue \in ClampArgs :
        MirrorMutate("ClampMagnitude", maxValue,
                     ClampMagnitude2(v2, maxValue), ClampMagnitude3(v3, maxValue))

MirrorClear == MirrorMutate("Clear", PosZero, Clear2(v2), Clear3(v3))

MirrorAngleRadians == MirrorQuery("AngleRadians", AngleRadians2(v2), AngleRadians3(v3))

MirrorAngleDegrees == MirrorQuery("AngleDegrees", AngleDegrees2(v2), AngleDegrees3(v3))

MirrorIsZero == MirrorQuery("IsZero", IsZero2(v2), IsZero3(v3))

MirrorMagnitude == MirrorQuery("Magnitude", Magnitude2(v2), Magnitude3(v3))

MirrorMagnitudeSquared ==
    MirrorQuery("MagnitudeSquared", MagnitudeSquared2(v2), MagnitudeSquared3(v3))

MirrorDistance == MirrorQuery("Distance", Distance2(v2, w2), Distance3(v3, w3))

MirrorDistanceSquared ==
    MirrorQuery("DistanceSquared", DistanceSquared2(v2, w2), DistanceSquared3(v3, w3))

NextMirror ==
    \/ MirrorAdd \/ MirrorSub \/ MirrorMul \/ MirrorDiv \/ MirrorBounce
    \/ MirrorNormalize \/ MirrorClampMagnitude \/ MirrorClear
    \/ MirrorAngleRadians \/ MirrorAngleDegrees \/ MirrorIsZero
    \/ MirrorMagnitude \/ MirrorMagnitudeSquared \/ MirrorDistance
    \/ MirrorDistanceSquared

SpecMirror == InitMirror /\ [][NextMirror]_vars

\* ------------------------------------------------------------------------
\* The measuring caller: it holds a vector and another one, may subtract the
\* other from the vector, and asks for a magnitude or a distance.
\* ------------------------------------------------------------------------

MeasureArgs2 == Args2 \cup {Vec2(Num(3), Num(4))}

MeasureArgs3 == Args3 \cup {Vec3(Num(3), Num(4), Num(12))}

InitMeasure ==
    /\ ty \in {"Vector2", "Vector3"}
    /\ IF ty = "Vector2"
       THEN /\ v2 \in Recv2
            /\ w2 \in MeasureArgs2
            /\ v3 = Zero3
            /\ w3 = Zero3
       ELSE /\ v3 \in Recv3
            /\ w3 \in MeasureArgs3
            /\ v2 = Zero2
            /\ w2 = Zero2
    /\ pre2 = v2
    /\ old2 = v2
    /\ pre3 = v3
    /\ old3 = v3
    /\ lastm = NoCall
    /\ prevm = "none"
    /\ q = "none"
    /\ ret = NoRet
    /\ thr = NoThreads
    /\ frame = NoFrames
    /\ mixed = FALSE
    /\ left = MaxCalls

NextMeasure ==
    \/ CallSub2 \/ CallMagnitude2 \/ CallMagnitudeSquared2 \/ CallDistance2
    \/ CallDistanceSquared2
    \/ CallSub3 \/ CallMagnitude3 \/ CallMagnitudeSquared3 \/ CallDistance3
    \/ CallDistanceSquared3

SpecMeasure == InitMeasure /\ [][NextMeasure]_vars

\* ------------------------------------------------------------------------
\* Two goroutines. Each one holds a copy of its own of a vector and calls
\* methods with a pointer receiver on it. A step of a goroutine is one read
\* or one write of one component of its copy; the values a call has read
\* and its local variables are in the goroutine's stack frame.
\* ------------------------------------------------------------------------

MaxThreadOps == 1

Threads == {1, 2}

\* The methods with a pointer receiver.
InPlace(type) ==
    IF type = "Vector2"
    THEN {"Add", "Sub", "Mul", "Div", "Scale", "Bounce", "Normalize", "Lerp",
          "ClampMagnitude", "Clear"}
    ELSE {"Add", "Sub", "Mul", "Div", "Bounce", "Normalize", "ClampMagnitude",
          "Clear"}

\* The methods that compute a local variable from the squares of all the
\* components before they assign to a component.
Headed == {"Normalize", "ClampMagnitude"}

\* The vector the goroutines copy, and the arguments of their calls.
ThreadRecv(type) ==
    IF type = "Vector2" THEN Vec2(Num(3), Num(4)) ELSE Vec3(Num(3), Num(4), Num(12))

ThreadArg(type) ==
    IF type = "Vector2" THEN Vec2(Num(10), Num(4)) ELSE Vec3(Num(10), Num(4), Num(1))

ThreadScalar(op) ==
    CASE op = "Scale" -> Num(2)
      [] op = "Lerp" -> Dy(1, -1)
      [] op = "ClampMagnitude" -> Num(3)
      [] OTHER -> PosZero

\* The reads and writes of the receiver that a call makes, in program order.
\* "square" and "sum" read a component for the sum of the squares, "test"
\* reads the last one and evaluates the condition.
HeadOf(type) ==
    IF type = "Vector2"
    THEN << <<"square", "X">>, <<"test", "Y">> >>
    ELSE << <<"square", "X">>, <<"sum", "Y">>, <<"test", "Z">> >>

AssignOf(op, axis) ==
    IF op = "Clear"
    THEN << <<"write", axis>> >>
    ELSE << <<"read", axis>>, <<"write", axis>> >>

BodyOf(type, op) ==
    IF type = "Vector2"
    THEN AssignOf(op, "X") \o AssignOf(op, "Y")
    ELSE AssignOf(op, "X") \o AssignOf(op, "Y") \o AssignOf(op, "Z")

Program(type, op) ==
    IF op \in Headed THEN HeadOf(type) \o BodyOf(type, op) ELSE BodyOf(type, op)

\* The value an assignment statement of op stores in a component: x is the
\* component as read, a the argument's component, s the scalar argument
\* and l the local variable (magnitude, scale).
Assign(op, x, a, s, l) ==
    CASE op = "Add" -> FAdd(x, a)
      [] op = "Sub" -> FSub(x, a)
      [] op = "Mul" -> FMul(x, a)
      [] op = "Div" -> FDiv(x, a)
      [] op = "Scale" -> FMul(x, s)
      [] op = "Bounce" -> FNeg(x)
      [] op = "Lerp" -> FAdd(x, FMul(FSub(a, x), s))
      [] op = "Clear" -> PosZero
      [] op = "Normalize" -> FDiv(x, l)
      [] op = "ClampMagnitude" -> FMul(x, l)

\* What Normalize and ClampMagnitude decide once they have the sum of the
\* squares: whether they go on to the assignments, and the local variable
\* the assignments use.
Decide(type, op, sumSquares, s) ==
    IF op = "Normalize"
    THEN IF type = "Vector2"
         THEN [go |-> FNe(sumSquares, PosZero), l |-> FSqrt(sumSquares)]
         ELSE [go |-> FNe(FSqrt(sumSquares), PosZero), l |-> FSqrt(sumSquares)]
    ELSE IF type = "Vector2"
         THEN [go |-> ~(FEq(sumSquares, PosZero) \/ FLe(sumSquares, FMul(s, s))),
               l |-> FDiv(s, FSqrt(sumSquares))]
         ELSE [go |-> ~(FEq(FSqrt(sumSquares), PosZero) \/ FLe(FSqrt(sumSquares), s)),
               l |-> FDiv(s, FSqrt(sumSquares))]

\* The vector that one call of op alone makes of v.
Alone(type, op, v, vec, s) ==
    IF type = "Vector2"
    THEN CASE op = "Add" -> Add2(v, vec)
           [] op = "Sub" -> Sub2(v, vec)
           [] op = "Mul" -> Mul2(v, vec)
           [] op = "Div" -> Div2(v, vec)
           [] op = "Scale" -> Scale2(v, s)
           [] op = "Bounce" -> Bounce2(v)
           [] op = "Normalize" -> Normalize2(v)
           [] op = "Lerp" -> Lerp2(v, vec, s)
           [] op = "ClampMagnitude" -> ClampMagnitude2(v, s)
           [] op = "Clear" -> Clear2(v)
    ELSE CASE op = "Add" -> Add3(v, vec)
           [] op = "Sub" -> Sub3(v, vec)
           [] op = "Mul" -> Mul3(v, vec)
           [] op = "Div" -> Div3(v, vec)
           [] op = "Bounce" -> Bounce3(v)
           [] op = "Normalize" -> Normalize3(v)
           [] op = "ClampMagnitude" -> ClampMagnitude3(v, s)
           [] op = "Clear" -> Clear3(v)

\* The frame of goroutine t that holds the locals of t's call, were the
\* locals kept in variables of the package that all goroutines share.
SlotShared(t) == 1

\* The frame that holds the locals of goroutine t's call: the locals are
\* variables of the function, so each goroutine has them on its own stack.
Slot(t) == t

NoFrame == [reg |-> PosZero, acc |-> PosZero, l |-> PosZero]

InitThreads ==
    /\ ty \in {"Vector2", "Vector3"}
    /\ v2 = (IF ty = "Vector2" THEN ThreadRecv(ty) ELSE Zero2)
    /\ v3 = (IF ty = "Vector3" THEN ThreadRecv(ty) ELSE Zero3)
    /\ w2 = Zero2
    /\ w3 = Zero3
    /\ pre2 = v2
    /\ old2 = v2
    /\ pre3 = v3
    /\ old3 = v3
    /\ lastm = NoCall
    /\ prevm = "none"
    /\ q = "none"
    /\ ret = NoRet
    /\ left = 0
    /\ thr = [t \in Threads |->
                [v |-> ThreadRecv(ty), want |-> ThreadRecv(ty), op |-> "none",
                 vec |-> ThreadArg(ty), s |-> PosZero, todo |-> <<>>,
                 left |-> MaxThreadOps]]
    /\ frame = [t \in Threads |-> NoFrame]
    /\ mixed = FALSE

\* Some other goroutine is in the middle of a call: it has taken a step of
\* it and has more to take.
Racing(t) ==
    \E u \in Threads \ {t} :
        /\ thr[u].todo # <<>>
        /\ Len(thr[u].todo) < Len(Program(ty, thr[u].op))

\* Goroutine t calls a method with a pointer receiver on its copy.
ThreadCall(t) ==
    /\ thr[t].todo = <<>>
    /\ thr[t].left > 0
    /\ \E op \in InPlace(ty) :
          thr' = [thr EXCEPT ![t] =
                    [@ EXCEPT !.op = op,
                              !.s = ThreadScalar(op),
                              !.todo = Program(ty, op),
                              !.want = Alone(ty, op, thr[t].want, thr[t].vec,
                                             ThreadScalar(op)),
                              !.left = @ - 1]]
    /\ UNCHANGED <<ty, left, v2, w2, v3, w3, lastm, prevm, pre2, old2, pre3, old3,
                   q, ret, frame, mixed>>

\* Goroutine t makes the next read or write of its call; the call returns
\* after its last one, and its frame is gone.
ThreadStep(t) ==
    /\ thr[t].todo # <<>>
    /\ LET me == thr[t]
           kind == Head(me.todo)[1]
           axis == Head(me.todo)[2]
           x == me.v[axis]
           f == frame[Slot(t)]
           sumSquares == FAdd(f.acc, FMul(x, x))
           d == Decide(ty, me.op, sumSquares, me.s)
           rest == IF kind = "test" /\ ~d.go THEN <<>> ELSE Tail(me.todo)
       IN  /\ thr' = [thr EXCEPT ![t] =
                        [@ EXCEPT !.v = IF kind = "write"
                                        THEN [@ EXCEPT ![axis] =
                                                Assign(me.op, f.reg, me.vec[axis],
                                                       me.s, f.l)]
                                        ELSE @,
                                  !.todo = rest]]
           /\ frame' = [frame EXCEPT ![Slot(t)] =
                          CASE rest = <<>> -> NoFrame
                            [] kind = "read" -> [@ EXCEPT !.reg = x]
                            [] kind = "square" -> [@ EXCEPT !.acc = FMul(x, x)]
                            [] kind = "sum" -> [@ EXCEPT !.acc = sumSquares]
                            [] kind = "test" -> [@ EXCEPT !.acc = sumSquares, !.l = d.l]
                            [] OTHER -> @]
           /\ mixed' = (mixed \/ Racing(t))
    /\ UNCHANGED <<ty, left, v2, w2, v3, w3, lastm, prevm, pre2, old2, pre3, old3,
                   q, ret>>

NextThreads == \E t \in Threads : ThreadCall(t) \/ ThreadStep(t)

SpecThreads == InitThreads /\ [][NextThreads]_vars

\* ------------------------------------------------------------------------
\* The vocabulary of the properties.
\* ------------------------------------------------------------------------

\* x and y are the same value: the same bits, or equal numbers.
SameF(x, y) == x = y \/ FEq(x, y)

SameVec2(a, b) == SameF(a.X, b.X) /\ SameF(a.Y, b.Y)

SameVec3(a, b) == SameF(a.X, b.X) /\ SameF(a.Y, b.Y) /\ SameF(a.Z, b.Z)

FinVec2(v) == IsFinite(v.X) /\ IsFinite(v.Y)

FinVec3(v) == IsFinite(v.X) /\ IsFinite(v.Y) /\ IsFinite(v.Z)

\* x is a normal number: finite, and not so small that it has lost digits.
IsNormal(x) == IsFinite(x) /\ x.n >= 2^(P - 1)

\* a and b are finite and differ by at most eight units in the last place.
Near(a, b) ==
    /\ IsFinite(a)
    /\ IsFinite(b)
    /\ Abs(SVal(a) - SVal(b)) <= (IF a.n > b.n THEN a.n ELSE b.n) \div 2^(P - 3)

\* m is at most s, or above it by no more than the tolerance.
LeTol(m, s) == FLe(m, s) \/ Near(m, s)

\* maxValue is a bound whose square is computed without overflow and
\* without underflow: 0, +Inf, or a number with a normal square.
PlainBound(s) ==
    /\ FLe(PosZero, s)
    /\ IsZeroF(s) \/ IsInf(s) \/ IsNormal(FMul(s, s))

Clamped == lastm.name = "ClampMagnitude"

\* ------------------------------------------------------------------------
\* C1
\* ------------------------------------------------------------------------

\* C1 as stated: after ClampMagnitude(maxValue) with maxValue >= 0 the
\* magnitude is at most maxValue, and a vector whose magnitude was at most
\* maxValue is unchanged. Violated: rounding leaves a clamped vector just
\* above maxValue, and a NaN component gives a NaN magnitude.
C1_AsStated ==
    Clamped /\ FLe(PosZero, lastm.s) =>
        IF ty = "Vector2"
        THEN /\ FLe(Magnitude2(v2), lastm.s)
             /\ FLe(Magnitude2(pre2), lastm.s) => v2 = pre2
        ELSE /\ FLe(Magnitude3(v3), lastm.s)
             /\ FLe(Magnitude3(pre3), lastm.s) => v3 = pre3

\* C1, amended: for a vector of finite components and a maxValue >= 0 whose
\* square neither overflows nor underflows, after ClampMagnitude(maxValue)
\* the magnitude is at most maxValue within eight units in the last place;
\* for every vector and every maxValue >= 0, a vector whose magnitude was at
\* most maxValue is unchanged.
C1_ClampBound ==
    Clamped /\ FLe(PosZero, lastm.s) =>
        IF ty = "Vector2"
        THEN /\ FinVec2(pre2) /\ PlainBound(lastm.s)
                => LeTol(Magnitude2(v2), lastm.s)
             /\ FLe(Magnitude2(pre2), lastm.s) => v2 = pre2
        ELSE /\ FinVec3(pre3) /\ PlainBound(lastm.s)
                => LeTol(Magnitude3(v3), lastm.s)
             /\ FLe(Magnitude3(pre3), lastm.s) => v3 = pre3

\* A vector of finite components was longer than maxValue = 3, was scaled,
\* and its magnitude is now above 3 by a rounding error.
C1_Witness ==
    /\ ty = "Vector3"
    /\ Clamped
    /\ lastm.s = Num(3)
    /\ FinVec3(pre3)
    /\ v3 # pre3
    /\ FLt(lastm.s, Magnitude3(v3))
    /\ Near(Magnitude3(v3), lastm.s)

\* ------------------------------------------------------------------------
\* C2
\* ------------------------------------------------------------------------

\* The absolute value of a number.
FAbs(x) == IF IsNaN(x) THEN x ELSE [x EXCEPT !.neg = FALSE]

\* v with every component multiplied by maxValue / magnitude.
Scaled2(v, maxValue) ==
    LET scale == FDiv(maxValue, Magnitude2(v))
    IN  Vec2(FMul(v.X, scale), FMul(v.Y, scale))

Scaled3(v, maxValue) ==
    LET scale == FDiv(maxValue, Magnitude3(v))
    IN  Vec3(FMul(v.X, scale), FMul(v.Y, scale), FMul(v.Z, scale))

\* Every component of a has the sign of its component of b, reversed when
\* flip holds.
Signs2(a, b, flip) ==
    /\ a.X.neg = (b.X.neg # flip)
    /\ a.Y.neg = (b.Y.neg # flip)

Signs3(a, b, flip) ==
    /\ a.X.neg = (b.X.neg # flip)
    /\ a.Y.neg = (b.Y.neg # flip)
    /\ a.Z.neg = (b.Z.neg # flip)

\* A finite maxValue other than 0 whose square is a normal number.
PlainScale(s) == IsFinite(s) /\ IsNormal(FMul(s, s))

Normalized == lastm.name = "Normalize"

\* C3: Normalize() on a vector whose components are all exactly 0 leaves
\* every component as it was, a zero and no NaN, and so does
\* ClampMagnitude(maxValue) for every maxValue, NaN included.
C3_ZeroNoOp ==
    Normalized \/ Clamped =>
        /\ ty = "Vector2" /\ IsZero2(pre2) => v2 = pre2 /\ IsZero2(v2)
        /\ ty = "Vector3" /\ IsZero3(pre3) => v3 = pre3 /\ IsZero3(v3)

\* Normalize() was called on the Vector2 (-0, 0) and it is still (-0, 0).
C3_Witness ==
    /\ ty = "Vector2"
    /\ Normalized
    /\ pre2 = Vec2(NegZero, PosZero)
    /\ v2 = Vec2(NegZero, PosZero)

\* ------------------------------------------------------------------------
\* C4
\* ------------------------------------------------------------------------

\* A finite component that is 0 or has a normal square.
PlainComp(x) == IsFinite(x) /\ (IsZeroF(x) \/ IsNormal(FMul(x, x)))

\* A vector whose squares and their sum are computed without overflow and
\* without underflow, and which is not the zero vector.
PlainVec2(v) ==
    /\ PlainComp(v.X)
    /\ PlainComp(v.Y)
    /\ IsNormal(MagnitudeSquared2(v))

PlainVec3(v) ==
    /\ PlainComp(v.X)
    /\ PlainComp(v.Y)
    /\ PlainComp(v.Z)
    /\ IsNormal(MagnitudeSquared3(v))

\* C4 as stated: after Normalize() on a non-zero vector the magnitude is 1
\* within tolerance and AngleRadians() returns what it returned before.
\* Violated: the components are rounded one by one, so the angle moves by
\* a rounding error; a squared magnitude that overflows makes the vector
\* zero, one that underflows leaves it as it was.
C4_AsStated ==
    Normalized =>
        /\ ty = "Vector2" /\ ~IsZero2(pre2)
           => /\ Near(Magnitude2(v2), Num(1))
              /\ SameF(AngleRadians2(v2), AngleRadians2(pre2))
        /\ ty = "Vector3" /\ ~IsZero3(pre3)
           => /\ Near(Magnitude3(v3), Num(1))
              /\ SameF(AngleRadians3(v3), AngleRadians3(pre3))

\* C4, amended: for a vector of finite components, each 0 or with a normal
\* square, whose squared magnitude is a normal number, after Normalize() the
\* magnitude is 1 and AngleRadians() is what it was before, both within
\* eight units in the last place.
C4_Normalize ==
    Normalized =>
        /\ ty = "Vector2" /\ PlainVec2(pre2)
           => /\ Near(Magnitude2(v2), Num(1))
              /\ Near(AngleRadians2(v2), AngleRadians2(pre2))
        /\ ty = "Vector3" /\ PlainVec3(pre3)
           => /\ Near(Magnitude3(v3), Num(1))
              /\ Near(AngleRadians3(v3), AngleRadians3(pre3))

\* The Vector2 (3, 4) was normalized: its magnitude is 1 within tolerance
\* and its angle has moved by a rounding error.
C4_Witness ==
    /\ ty = "Vector2"
    /\ Normalized
    /\ pre2 = Vec2(Num(3), Num(4))
    /\ Near(Magnitude2(v2), Num(1))
    /\ ~SameF(AngleRadians2(v2), AngleRadians2(pre2))
    /\ Near(AngleRadians2(v2), AngleRadians2(pre2))

\* ------------------------------------------------------------------------
\* C5
\* ------------------------------------------------------------------------

\* C5, for components that are numbers: AngleDegrees() returns a value in
\* [0, 360), never negative and never exactly 360. Violated: for an angle
\* just below 0, Vector2.AngleDegrees adds 360, the sum rounds to 360 and is
\* returned as it is.
C5_AsStated ==
    q = "AngleDegrees" =>
        /\ ty = "Vector2" /\ ~IsNaN(v2.X) /\ ~IsNaN(v2.Y)
           => FLe(PosZero, ret.f) /\ FLt(ret.f, Num(360))
        /\ ty = "Vector3" /\ ~IsNaN(v3.X) /\ ~IsNaN(v3.Y)
           => FLe(PosZero, ret.f) /\ FLt(ret.f, Num(360))

\* ------------------------------------------------------------------------
\* C6
\* ------------------------------------------------------------------------

\* Add was called and Sub was called right after it, with the same argument.
AddedThenSubtracted == prevm = "Add" /\ lastm.name = "Sub"

\* The sum of a and b is computed without rounding.
ExactSum(a, b) ==
    /\ IsFinite(a)
    /\ IsFinite(b)
    /\ IsFinite(FAdd(a, b))
    /\ SVal(FAdd(a, b)) = SVal(a) + SVal(b)

\* The argument vectors are the same in every step.
ArgsKept == [][w2' = w2 /\ w3' = w3]_vars

\* C6 as stated: v.Add(w) followed by v.Sub(w) restores every component of
\* v, and w is unchanged throughout. Violated: the sum is rounded, and a
\* small component of v is lost in it.
C6_AsStated ==
    /\ [](AddedThenSubtracted =>
            /\ ty = "Vector2" => SameVec2(v2, old2)
            /\ ty = "Vector3" => SameVec3(v3, old3))
    /\ ArgsKept

\* C6, amended: when every component of v and of w is finite and every
\* component of v + w is computed without rounding, v.Add(w) followed by
\* v.Sub(w) restores the value of every component of v; w is unchanged
\* throughout, whatever the components are.
C6_RoundTrip ==
    /\ [](AddedThenSubtracted =>
            /\ /\ ty = "Vector2"
               /\ ExactSum(old2.X, w2.X)
               /\ ExactSum(old2.Y, w2.Y)
               => SameVec2(v2, old2)
            /\ /\ ty = "Vector3"
               /\ ExactSum(old3.X, w3.X)
               /\ ExactSum(old3.Y, w3.Y)
               /\ ExactSum(old3.Z, w3.Z)
               => SameVec3(v3, old3))
    /\ ArgsKept

\* (10, 10) was added to the Vector2 (3, 4) and subtracted from it again,
\* and the vector is (3, 4).
C6_Witness ==
    /\ ty = "Vector2"
    /\ AddedThenSubtracted
    /\ old2 = Vec2(Num(3), Num(4))
    /\ w2 = Vec2(Num(10), Num(10))
    /\ pre2 = Vec2(Num(13), Num(14))
    /\ v2 = old2

\* ------------------------------------------------------------------------
\* C7
\* ------------------------------------------------------------------------

Divided == lastm.name = "Div"

\* r is what the division of a by d gives: for d = 0, an infinity with the
\* sign of a reversed when d is -0 if a is a number other than 0, and NaN
\* if a is 0 or NaN; for another d, the quotient.
Quotient(a, d, r) ==
    IF IsZeroF(d)
    THEN IF IsNaN(a) \/ IsZeroF(a) THEN IsNaN(r) ELSE r = Inf(a.neg # d.neg)
    ELSE r = FDiv(a, d)

\* C7: Div(other) divides each component of the receiver by the matching
\* component of other, whatever that is: a component whose divisor is 0
\* becomes Inf when it was a number other than 0 and NaN when it was 0, and
\* the others become the quotient; (1, 0).Div((0, 1)) gives X = +Inf, Y = 0.
C7_Div ==
    Divided =>
        /\ ty = "Vector2" =>
              /\ Quotient(pre2.X, w2.X, v2.X)
              /\ Quotient(pre2.Y, w2.Y, v2.Y)
              /\ pre2 = Vec2(Num(1), Num(0)) /\ w2 = Vec2(Num(0), Num(1))
                 => v2 = Vec2(Inf(FALSE), PosZero)
        /\ ty = "Vector3" =>
              /\ Quotient(pre3.X, w3.X, v3.X)
              /\ Quotient(pre3.Y, w3.Y, v3.Y)
              /\ Quotient(pre3.Z, w3.Z, v3.Z)

\* (1, 0) was divided by (0, 1) and is now (+Inf, 0).
C7_Witness ==
    /\ ty = "Vector2"
    /\ Divided
    /\ pre2 = Vec2(Num(1), Num(0))
    /\ w2 = Vec2(Num(0), Num(1))
    /\ v2 = Vec2(Inf(FALSE), PosZero)

\* ------------------------------------------------------------------------
\* C8
\* ------------------------------------------------------------------------

Lerped == ty = "Vector2" /\ lastm.name = "Lerp"

\* The difference of a and b is computed without rounding.
ExactDiff(a, b) ==
    /\ IsFinite(a)
    /\ IsFinite(b)
    /\ IsFinite(FSub(a, b))
    /\ SVal(FSub(a, b)) = SVal(a) - SVal(b)

\* What the claim says of (0, 0).Lerp((10, 10), t) for t = 0.5 and t = 2.
LerpExamples ==
    pre2 = Vec2(Num(0), Num(0)) /\ w2 = Vec2(Num(10), Num(10)) =>
        /\ lastm.s = Dy(1, -1) => v2 = Vec2(Num(5), Num(5))
        /\ lastm.s = Num(2) => v2 = Vec2(Num(20), Num(20))

\* C8 as stated: Lerp(other, t) leaves v unchanged for t = 0, makes it
\* exactly other for t = 1, the midpoint for t = 0.5, extrapolates for t
\* outside [0, 1], and never modifies other. Violated: for t = 1 the
\* difference other - v is rounded before it is added to v; for t = 0 an
\* infinite difference times 0 is NaN.
C8_AsStated ==
    /\ [](Lerped =>
            /\ lastm.s = Num(0) => SameVec2(v2, pre2)
            /\ lastm.s = Num(1) => SameVec2(v2, w2)
            /\ LerpExamples)
    /\ ArgsKept

\* C8, amended: Lerp(other, t) replaces each component of v by
\* v + (other - v) * t, without clamping t. For t = 0 the value of v is
\* unchanged when the components of v and of other - v are finite; for
\* t = 1 v becomes other when every component of other - v is computed
\* without rounding; (0, 0).Lerp((10, 10), 0.5) gives (5, 5) and with t = 2
\* it gives (20, 20); other is never modified.
C8_Lerp ==
    /\ [](Lerped =>
            /\ v2 = Vec2(FAdd(pre2.X, FMul(FSub(w2.X, pre2.X), lastm.s)),
                         FAdd(pre2.Y, FMul(FSub(w2.Y, pre2.Y), lastm.s)))
            /\ /\ lastm.s = Num(0)
               /\ FinVec2(pre2)
               /\ IsFinite(FSub(w2.X, pre2.X))
               /\ IsFinite(FSub(w2.Y, pre2.Y))
               => SameVec2(v2, pre2)
            /\ /\ lastm.s = Num(1)
               /\ ExactDiff(w2.X, pre2.X)
               /\ ExactDiff(w2.Y, pre2.Y)
               => SameVec2(v2, w2)
            /\ LerpExamples)
    /\ ArgsKept

\* (0, 0).Lerp((10, 10), 0.5) was called and the vector is (5, 5).
C8_Witness ==
    /\ Lerped
    /\ lastm.s = Dy(1, -1)
    /\ pre2 = Vec2(Num(0), Num(0))
    /\ w2 = Vec2(Num(10), Num(10))
    /\ v2 = Vec2(Num(5), Num(5))

\* ------------------------------------------------------------------------
\* C9
\* ------------------------------------------------------------------------

\* C9: v.ToVector3() has the X and Y of v and Z = 0, and converting it back
\* gives v, component for component; u.ToVector2() has the X and Y of u, and
\* converting it back gives u if and only if u.Z == 0; neither conversion
\* modifies its receiver.
C9_Conversions ==
    /\ [](q = "ToVector3" =>
            /\ ret.v3.X = v2.X
            /\ ret.v3.Y = v2.Y
            /\ ret.v3.Z = PosZero
            /\ ToVector2(ret.v3) = v2)
    /\ [](q = "ToVector2" =>
            /\ ret.v2.X = v3.X
            /\ ret.v2.Y = v3.Y
            /\ SameVec3(ToVector3(ret.v2), v3) <=> FEq(v3.Z, PosZero))
    /\ [][q' \in {"ToVector3", "ToVector2"} => v2' = v2 /\ v3' = v3]_vars

\* A Vector3 with Z = 12 was converted to a Vector2 that has its X and Y,
\* and converting that back does not give the Vector3.
C9_Witness ==
    /\ q = "ToVector2"
    /\ v3.Z = Num(12)
    /\ ret.v2 = Vec2(v3.X, v3.Y)
    /\ ~SameVec3(ToVector3(ret.v2), v3)

\* ------------------------------------------------------------------------
\* C10
\* ------------------------------------------------------------------------

\* The Vector3 is the Vector2 with a Z of 0.
Aligned == ToVector2(v3) = v2 /\ IsZeroF(v3.Z)

\* The step is a call of a method with a pointer receiver, and if it is
\* ClampMagnitude, its maxValue is >= 0 with a plain square.
PlainStep ==
    /\ left' # left
    /\ lastm'.name = "ClampMagnitude" => PlainBound(lastm'.s)

\* An error of the sum angle + 360: one unit in the last place of 360.
AngleTol == 2^(9 + F - P)

\* Two results of AngleDegrees are the same angle: they differ by a multiple
\* of 360 and the rounding error of angle + 360, or they are both NaN.
AnglesAgree(a, b) ==
    \/ a = b
    \/ /\ IsFinite(a)
       /\ IsFinite(b)
       /\ \/ Abs(SVal(a) - SVal(b)) <= AngleTol
          \/ Abs(Abs(SVal(a) - SVal(b)) - SVal(Num(360))) <= AngleTol

\* C10 as stated, for the operations that Vector3 has: after every step of
\* the mirrored caller the Vector3 projected by ToVector2 equals the
\* Vector2 and its Z is 0, and every query returns the same value on both.
\* Violated: Div divides the Z of 0 by the argument's Z of 0, which is NaN;
\* ClampMagnitude with a negative maxValue reverses the Vector3 and not
\* the Vector2; the two AngleDegrees round differently.
C10_AsStated ==
    ty = "Mirror" =>
        /\ SameVec2(ToVector2(v3), v2)
        /\ IsZeroF(v3.Z)
        /\ q # "none" =>
              \/ ret.on2 = ret.on3
              \/ q # "IsZero" /\ FEq(ret.on2, ret.on3)

\* C10, amended: Vector3 has the operations of Vector2 except Scale, Dot
\* and Lerp. When the Vector3 is the Vector2 with Z = 0, the same call of
\* Add, Sub, Mul, Div, Bounce, Normalize, Clear, or of ClampMagnitude with a
\* maxValue >= 0 whose square neither overflows nor underflows, on both,
\* with the argument converted by ToVector3, leaves the X and Y of the
\* Vector3 those of the Vector2 and its Z 0 or NaN; and the same query
\* returns the same value on both, except AngleDegrees, whose two results
\* are the same angle up to a multiple of 360 and a rounding error.
C10_Mirror ==
    /\ [](IVector2 \ IVector3 = {"Scale", "Dot", "Lerp", "ToVector3"})
    /\ [][ty = "Mirror" /\ Aligned /\ PlainStep
            => /\ ToVector2(v3') = v2'
               /\ IsZeroF(v3'.Z) \/ IsNaN(v3'.Z)]_vars
    /\ [](ty = "Mirror" /\ Aligned /\ q # "none" =>
            IF q = "AngleDegrees"
            THEN AnglesAgree(ret.on2, ret.on3)
            ELSE ret.on2 = ret.on3)

\* AngleDegrees was called on a Vector2 and on the Vector3 made of it, and
\* returned 360 on the first and 0 on the second.
C10_Witness ==
    /\ ty = "Mirror"
    /\ Aligned
    /\ q = "AngleDegrees"
    /\ ret.on2 = Num(360)
    /\ ret.on3 = PosZero

\* ------------------------------------------------------------------------
\* C11. Magnitude() returns the square root of the sum of the squared
\* components and MagnitudeSquared() that sum itself, so that Magnitude() is
\* the square root of MagnitudeSquared(); Distance(other) returns what
\* Magnitude() returns once other has been subtracted from the vector, and
\* DistanceSquared(other) what MagnitudeSquared() returns then; both return
\* the same value with the two vectors exchanged. Vector2{3,4} has magnitude
\* 5, and (0,0) and (3,4) are at distance 5 and squared distance 25.
\* ------------------------------------------------------------------------

\* The vector has just had the other one subtracted from it.
Subtracted == lastm.name = "Sub"

Square(x) == FMul(x, x)

C11_Measures ==
    /\ (ty = "Vector2" /\ q = "MagnitudeSquared")
          => ret.f = FAdd(Square(v2.X), Square(v2.Y))
    /\ (ty = "Vector3" /\ q = "MagnitudeSquared")
          => ret.f = FAdd(FAdd(Square(v3.X), Square(v3.Y)), Square(v3.Z))
    /\ (ty = "Vector2" /\ q = "Magnitude")
          => /\ ret.f = FSqrt(MagnitudeSquared2(v2))
             /\ Subtracted => /\ ret.f = Distance2(pre2, w2)
                              /\ ret.f = Distance2(w2, pre2)
             /\ v2 = Vec2(Num(3), Num(4)) => ret.f = Num(5)
    /\ (ty = "Vector3" /\ q = "Magnitude")
          => /\ ret.f = FSqrt(MagnitudeSquared3(v3))
             /\ Subtracted => /\ ret.f = Distance3(pre3, w3)
                              /\ ret.f = Distance3(w3, pre3)
             /\ v3 = Vec3(Num(3), Num(4), Num(12)) => ret.f = Num(13)
    /\ (ty = "Vector2" /\ q = "MagnitudeSquared" /\ Subtracted)
          => /\ ret.f = DistanceSquared2(pre2, w2)
             /\ ret.f = DistanceSquared2(w2, pre2)
    /\ (ty = "Vector3" /\ q = "MagnitudeSquared" /\ Subtracted)
          => /\ ret.f = DistanceSquared3(pre3, w3)
             /\ ret.f = DistanceSquared3(w3, pre3)
    /\ (ty = "Vector2" /\ q = "Distance")
          => /\ ret.f = Magnitude2(Sub2(v2, w2))
             /\ ret.f = Distance2(w2, v2)
             /\ (v2 = Zero2 /\ w2 = Vec2(Num(3), Num(4))) => ret.f = Num(5)
    /\ (ty = "Vector3" /\ q = "Distance")
          => /\ ret.f = Magnitude3(Sub3(v3, w3))
             /\ ret.f = Distance3(w3, v3)
    /\ (ty = "Vector2" /\ q = "DistanceSquared")
          => /\ ret.f = MagnitudeSquared2(Sub2(v2, w2))
             /\ ret.f = DistanceSquared2(w2, v2)
             /\ (v2 = Zero2 /\ w2 = Vec2(Num(3), Num(4))) => ret.f = Num(25)
    /\ (ty = "Vector3" /\ q = "DistanceSquared")
          => /\ ret.f = MagnitudeSquared3(Sub3(v3, w3))
             /\ ret.f = DistanceSquared3(w3, v3)

\* The distance of (0,0) and (3,4) has been asked for, or the magnitude of a
\* three-dimensional vector that has had a different vector subtracted.
C11_Witness ==
    \/ /\ ty = "Vector2"
       /\ q = "Distance"
       /\ v2 = Zero2
       /\ w2 = Vec2(Num(3), Num(4))
       /\ ret.f = Num(5)
    \/ /\ ty = "Vector3"
       /\ q = "Magnitude"
       /\ Subtracted
       /\ pre3 # w3
       /\ IsFinite(ret.f)
       /\ ~IsZeroF(ret.f)

\* ------------------------------------------------------------------------
\* C12. Two goroutines hold a copy each of a vector and call the in-place
\* methods on their copies without synchronization. Whenever a goroutine is
\* between two calls, its copy is the vector that its calls alone, one
\* after the other, make of the original, however the reads and writes of
\* the two goroutines were interleaved; and a step of one goroutine changes
\* neither the other goroutine's copy nor its locals.
\* ------------------------------------------------------------------------

Settled(t) == thr[t].todo = <<>>

OthersKept ==
    \A t \in Threads :
        thr'[t] # thr[t] =>
            \A u \in Threads \ {t} :
                /\ thr'[u] = thr[u]
                /\ frame'[Slot(u)] = frame[Slot(u)]

C12_Independent ==
    /\ [](\A t \in Threads : Settled(t) => thr[t].v = thr[t].want)
    /\ [][OthersKept]_vars

\* Both goroutines have made their calls, one of them took a step between
\* two steps of a call of the other, and both copies have changed, in
\* different ways.
C12_Witness ==
    /\ mixed
    /\ \A t \in Threads :
          /\ Settled(t)
          /\ thr[t].left = 0
          /\ thr[t].v # ThreadRecv(ty)
    /\ thr[1].v # thr[2].v

\* ------------------------------------------------------------------------
\* C13. A call of AngleRadians, AngleDegrees, IsZero, Magnitude,
\* MagnitudeSquared, Distance, DistanceSquared, Dot, ToVector3 or ToVector2
\* leaves every component of the receiver and of the argument vector as it
\* was; a call of Add, Sub, Mul, Div, Scale, Bounce, Normalize, Lerp,
\* ClampMagnitude or Clear leaves the argument vector as it was and changes
\* no vector but its receiver. Every call is one or the other.
\* ------------------------------------------------------------------------

Queries ==
    {"AngleRadians", "AngleDegrees", "IsZero", "Magnitude", "MagnitudeSquared",
     "Distance", "DistanceSquared", "Dot", "ToVector3", "ToVector2"}

InPlaceOps ==
    {"Add", "Sub", "Mul", "Div", "Scale", "Bounce", "Normalize", "Lerp",
     "ClampMagnitude", "Clear"}

\* The step is a call that returns a value.
Asked == q' # q

\* The step is a call that returns nothing.
Ordered == left' # left

QueryFrame ==
    Asked => /\ q' \in Queries
             /\ ~Ordered
             /\ v2' = v2
             /\ w2' = w2
             /\ v3' = v3
             /\ w3' = w3

InPlaceFrame ==
    Ordered => /\ lastm'.name \in InPlaceOps
               /\ ~Asked
               /\ w2' = w2
               /\ w3' = w3
               /\ ty = "Vector2" => v3' = v3
               /\ ty = "Vector3" => v2' = v2

C13_Frames == [][(Asked \/ Ordered) /\ QueryFrame /\ InPlaceFrame]_vars

\* Distance has been called on a vector that an in-place call with an
\* argument other than the zero vector had changed before.
C13_Witness ==
    /\ q = "Distance"
    /\ lastm.name \in {"Add", "Lerp"}
    /\ ty = "Vector2" => v2 # pre2 /\ w2 # Zero2
    /\ ty = "Vector3" => v3 # pre3 /\ w3 # Zero3

====
